---- MODULE Spec2Model ----
(***************************************************************************)
(* Model of examples/process_docx.py (wordcab-pii): the category taxonomy, *)
(* the category selector get_pii_types, the replacement synthesizer        *)
(* get_replacement and the span redactor replace_pii_in_text, with the     *)
(* detect command that drives them.                                        *)
(*                                                                         *)
(* A Python str is modelled as the sequence of its characters, each a      *)
(* one-character string, so that upper(), isupper(), replace() and slicing *)
(* are computed character by character as Python computes them.            *)
(***************************************************************************)
EXTENDS Integers, Sequences, FiniteSets, TLC

\* ---------------------------------------------------------------- bounds
\* longest text of a text unit handed to replace_pii_in_text
MaxLen == 3
\* most entity spans in one call of replace_pii_in_text
MaxSpans == 2
\* most tokens after --pii-types
MaxTokens == 2
\* most text units (paragraphs, table cells) in a document
MaxElements == 2
\* longest category string handed to get_replacement on its own
MaxCatLen == 3
\* most calls of get_replacement on one category
MaxCalls == 2

\* ---------------------------------------------------------------- str
LowerLetters ==
  <<"a","b","c","d","e","f","g","h","i","j","k","l","m",
    "n","o","p","q","r","s","t","u","v","w","x","y","z">>
UpperLetters ==
  <<"A","B","C","D","E","F","G","H","I","J","K","L","M",
    "N","O","P","Q","R","S","T","U","V","W","X","Y","Z">>

\* str.isupper / str.islower of one character
CharIsUpper(c) == \E i \in 1..26 : UpperLetters[i] = c
CharIsLower(c) == \E i \in 1..26 : LowerLetters[i] = c

\* str.upper of one character: letters map to their capital, the rest stay
CharUpper(c) ==
  IF CharIsLower(c) THEN UpperLetters[CHOOSE i \in 1..26 : LowerLetters[i] = c] ELSE c

\* str.upper()
StrUpper(s) == [i \in 1..Len(s) |-> CharUpper(s[i])]

\* str.isupper(): at least one cased character and no lower-case character
StrIsUpper(s) ==
  /\ \E i \in 1..Len(s) : CharIsUpper(s[i])
  /\ \A i \in 1..Len(s) : ~CharIsLower(s[i])

\* str.replace(old, new) for one-character old and new
StrReplaceChar(s, old, new) == [i \in 1..Len(s) |-> IF s[i] = old THEN new ELSE s[i]]

\* a slice bound as Python normalises it: negative counts from the end,
\* then clamped into 0..len
SliceBound(s, i) ==
  LET j == IF i < 0 THEN i + Len(s) ELSE i
  IN  IF j < 0 THEN 0 ELSE IF j > Len(s) THEN Len(s) ELSE j

\* s[:i]
SliceTo(s, i) == SubSeq(s, 1, SliceBound(s, i))
\* s[i:]
SliceFrom(s, i) == SubSeq(s, SliceBound(s, i) + 1, Len(s))
\* s[i:j]
Slice(s, i, j) == SubSeq(s, SliceBound(s, i) + 1, SliceBound(s, j))

\* offsets (0-based) at which old occurs in s
Occurrences(s, old) ==
  { p \in 0..(Len(s) - Len(old)) : SubSeq(s, p + 1, p + Len(old)) = old }

\* the last occurrence replaced instead of the first
StrReplaceFirst_Last(s, old, new) ==
  IF Occurrences(s, old) = {} THEN s
  ELSE LET p == CHOOSE q \in Occurrences(s, old) : \A r \in Occurrences(s, old) : r <= q
       IN  SubSeq(s, 1, p) \o new \o SubSeq(s, p + Len(old) + 1, Len(s))

\* str.replace(old, new, 1): the first occurrence only, s itself when none
StrReplaceFirst(s, old, new) ==
  IF Occurrences(s, old) = {} THEN s
  ELSE LET p == CHOOSE q \in Occurrences(s, old) : \A r \in Occurrences(s, old) : q <= r
       IN  SubSeq(s, 1, p) \o new \o SubSeq(s, p + Len(old) + 1, Len(s))

\* all sequences over S of length at most n
SeqsUpTo(S, n) == UNION { [1..m -> S] : m \in 0..n }

Range(s) == { s[i] : i \in DOMAIN s }

\* ---------------------------------------------------------------- taxonomy
\* ALL_PII_TYPES (process_docx.py:41-51); a string is the sequence of its characters
ALL_PII_TYPES ==
  << <<"n","u","m","b","e","r">>,
     <<"l","o","c","a","t","i","o","n"," ","a","d","d","r","e","s","s"," ","s","t","r","e","e","t">>,
     <<"p","i","n">>,
     <<"n","a","m","e"," ","m","e","d","i","c","a","l"," ","p","r","o","f","e","s","s","i","o","n","a","l">>,
     <<"a","c","c","o","u","n","t","s">>,
     <<"p","o","l","i","c","y"," ","n","u","m","b","e","r">>,
     <<"m","a","r","i","t","a","l"," ","s","t","a","t","u","s">>,
     <<"p","a","s","s","p","o","r","t"," ","n","u","m","b","e","r">>,
     <<"s","s","n">>,
     <<"d","i","s","c","h","a","r","g","e"," ","d","a","t","e">>,
     <<"o","c","c","u","p","a","t","i","o","n">>,
     <<"d","a","t","e">>,
     <<"o","r","i","g","i","n">>,
     <<"t","e","s","t"," ","r","e","s","u","l","t">>,
     <<"n","a","m","e">>,
     <<"l","o","c","a","t","i","o","n"," ","z","i","p">>,
     <<"g","e","n","d","e","r">>,
     <<"o","r","g","a","n","i","z","a","t","i","o","n"," ","m","e","d","i","c","a","l"," ","f","a","c","i","l","i","t","y">>,
     <<"e","s","i","d","n","o">>,
     <<"z","i","p">>,
     <<"d","a","t","e"," ","i","n","t","e","r","v","a","l">>,
     <<"d","o","b">>,
     <<"r","a","t","e">>,
     <<"o","r","g","a","n","i","z","a","t","i","o","n">>,
     <<"l","o","c","a","t","i","o","n"," ","s","t","a","t","e">>,
     <<"c","o","n","f","i","r","m","a","t","i","o","n"," ","n","u","m","b","e","r">>,
     <<"n","a","m","e"," ","g","i","v","e","n">>,
     <<"t","i","m","e">>,
     <<"c","v","v">>,
     <<"m","o","n","t","h">>,
     <<"c","r","e","d","i","t"," ","c","a","r","d">>,
     <<"p","l","a","n","d","u","r","a","t","i","o","n">>,
     <<"f","i","l","e","n","a","m","e">>,
     <<"a","g","e">>,
     <<"n","u","m","e","r","i","c","a","l"," ","p","i","i">>,
     <<"m","o","n","e","y">>,
     <<"p","h","y","s","i","c","a","l"," ","a","t","t","r","i","b","u","t","e">>,
     <<"a","d","d","r","e","s","s">>,
     <<"c","r","e","d","i","t"," ","c","a","r","d"," ","e","x","p","i","r","a","t","i","o","n">>,
     <<"a","c","c","o","u","n","t"," ","n","u","m","b","e","r">>,
     <<"l","o","c","a","t","i","o","n">>,
     <<"l","a","n","g","u","a","g","e">>,
     <<"l","o","c","a","t","i","o","n"," ","c","i","t","y">>,
     <<"d","u","r","a","t","i","o","n">>,
     <<"p","a","s","s","w","o","r","d">>,
     <<"m","e","d","i","c","a","l"," ","p","r","o","c","e","s","s">>,
     <<"c","o","u","n","t","y">>,
     <<"p","h","o","n","e"," ","n","u","m","b","e","r">>,
     <<"c","o","n","d","i","t","i","o","n">>,
     <<"e","m","a","i","l"," ","a","d","d","r","e","s","s">>,
     <<"l","o","c","a","t","i","o","n"," ","a","d","d","r","e","s","s">>,
     <<"n","a","m","e"," ","f","a","m","i","l","y">>,
     <<"l","o","c","a","t","i","o","n"," ","c","o","u","n","t","r","y">> >>

\* PII_GROUP (process_docx.py:54-63); a string is the sequence of its characters
PII_GROUP ==
  << <<"n","a","m","e">>,
     <<"n","a","m","e"," ","g","i","v","e","n">>,
     <<"n","a","m","e"," ","f","a","m","i","l","y">>,
     <<"p","h","o","n","e"," ","n","u","m","b","e","r">>,
     <<"e","m","a","i","l"," ","a","d","d","r","e","s","s">>,
     <<"s","s","n">>,
     <<"d","o","b">>,
     <<"a","g","e">>,
     <<"g","e","n","d","e","r">>,
     <<"m","a","r","i","t","a","l"," ","s","t","a","t","u","s">>,
     <<"o","r","i","g","i","n">>,
     <<"l","o","c","a","t","i","o","n"," ","a","d","d","r","e","s","s">>,
     <<"l","o","c","a","t","i","o","n"," ","a","d","d","r","e","s","s"," ","s","t","r","e","e","t">>,
     <<"l","o","c","a","t","i","o","n"," ","c","i","t","y">>,
     <<"l","o","c","a","t","i","o","n"," ","s","t","a","t","e">>,
     <<"l","o","c","a","t","i","o","n"," ","c","o","u","n","t","r","y">>,
     <<"l","o","c","a","t","i","o","n"," ","z","i","p">>,
     <<"l","o","c","a","t","i","o","n">>,
     <<"a","d","d","r","e","s","s">>,
     <<"z","i","p">>,
     <<"c","o","u","n","t","y">>,
     <<"p","a","s","s","p","o","r","t"," ","n","u","m","b","e","r">>,
     <<"o","c","c","u","p","a","t","i","o","n">>,
     <<"l","a","n","g","u","a","g","e">>,
     <<"p","h","y","s","i","c","a","l"," ","a","t","t","r","i","b","u","t","e">>,
     <<"p","a","s","s","w","o","r","d">>,
     <<"f","i","l","e","n","a","m","e">>,
     <<"d","a","t","e">>,
     <<"t","i","m","e">>,
     <<"d","u","r","a","t","i","o","n">>,
     <<"d","a","t","e"," ","i","n","t","e","r","v","a","l">>,
     <<"m","o","n","t","h">>,
     <<"n","u","m","b","e","r">>,
     <<"n","u","m","e","r","i","c","a","l"," ","p","i","i">>,
     <<"e","s","i","d","n","o">>,
     <<"c","o","n","f","i","r","m","a","t","i","o","n"," ","n","u","m","b","e","r">> >>

\* PHI_GROUP (process_docx.py:66-72); a string is the sequence of its characters
PHI_GROUP ==
  << <<"n","a","m","e">>,
     <<"n","a","m","e"," ","m","e","d","i","c","a","l"," ","p","r","o","f","e","s","s","i","o","n","a","l">>,
     <<"d","o","b">>,
     <<"a","g","e">>,
     <<"g","e","n","d","e","r">>,
     <<"p","h","o","n","e"," ","n","u","m","b","e","r">>,
     <<"e","m","a","i","l"," ","a","d","d","r","e","s","s">>,
     <<"s","s","n">>,
     <<"l","o","c","a","t","i","o","n"," ","a","d","d","r","e","s","s">>,
     <<"o","r","g","a","n","i","z","a","t","i","o","n"," ","m","e","d","i","c","a","l"," ","f","a","c","i","l","i","t","y">>,
     <<"c","o","n","d","i","t","i","o","n">>,
     <<"m","e","d","i","c","a","l"," ","p","r","o","c","e","s","s">>,
     <<"t","e","s","t"," ","r","e","s","u","l","t">>,
     <<"d","i","s","c","h","a","r","g","e"," ","d","a","t","e">>,
     <<"p","o","l","i","c","y"," ","n","u","m","b","e","r">>,
     <<"a","c","c","o","u","n","t"," ","n","u","m","b","e","r">>,
     <<"l","o","c","a","t","i","o","n"," ","c","i","t","y">>,
     <<"l","o","c","a","t","i","o","n"," ","s","t","a","t","e">>,
     <<"l","o","c","a","t","i","o","n"," ","z","i","p">> >>

\* PCI_GROUP with 'credit card' spelled as on the command line
PCI_GROUP_Underscored ==
  << <<"c","r","e","d","i","t","_","c","a","r","d">>,
     <<"c","r","e","d","i","t"," ","c","a","r","d"," ","e","x","p","i","r","a","t","i","o","n">>,
     <<"c","v","v">>,
     <<"a","c","c","o","u","n","t"," ","n","u","m","b","e","r">>,
     <<"a","c","c","o","u","n","t","s">>,
     <<"p","i","n">>,
     <<"m","o","n","e","y">>,
     <<"r","a","t","e">>,
     <<"p","l","a","n","d","u","r","a","t","i","o","n">> >>

\* PCI_GROUP (process_docx.py:75-78); a string is the sequence of its characters
PCI_GROUP ==
  << <<"c","r","e","d","i","t"," ","c","a","r","d">>,
     <<"c","r","e","d","i","t"," ","c","a","r","d"," ","e","x","p","i","r","a","t","i","o","n">>,
     <<"c","v","v">>,
     <<"a","c","c","o","u","n","t"," ","n","u","m","b","e","r">>,
     <<"a","c","c","o","u","n","t","s">>,
     <<"p","i","n">>,
     <<"m","o","n","e","y">>,
     <<"r","a","t","e">>,
     <<"p","l","a","n","d","u","r","a","t","i","o","n">> >>

\* PII_TO_FAKER (process_docx.py:81-135): the registered category and, second, the
\* constant its generator returns when the Faker library is absent (fake is None)
PII_TO_FAKER ==
  << << <<"a","c","c","o","u","n","t"," ","n","u","m","b","e","r">>,
        <<"A","C","C","1","2","3","4","5","6","7","8","9","0">> >>,
     << <<"a","c","c","o","u","n","t","s">>,
        <<"A","C","C","1","2","3","4","5","6","7","8","9","0">> >>,
     << <<"a","d","d","r","e","s","s">>,
        <<"1","2","3"," ","M","a","i","n"," ","S","t",","," ","C","i","t","y",","," ","S","t","a","t","e"," ","1","2","3","4","5">> >>,
     << <<"a","g","e">>,
        <<"3","5">> >>,
     << <<"c","o","n","d","i","t","i","o","n">>,
        <<"M","e","d","i","c","a","l"," ","C","o","n","d","i","t","i","o","n">> >>,
     << <<"c","o","n","f","i","r","m","a","t","i","o","n"," ","n","u","m","b","e","r">>,
        <<"C","O","N","F","1","2","3","4","5">> >>,
     << <<"c","o","u","n","t","y">>,
        <<"S","a","m","p","l","e"," ","C","o","u","n","t","y">> >>,
     << <<"c","r","e","d","i","t"," ","c","a","r","d">>,
        <<"4","1","1","1","-","1","1","1","1","-","1","1","1","1","-","1","1","1","1">> >>,
     << <<"c","r","e","d","i","t"," ","c","a","r","d"," ","e","x","p","i","r","a","t","i","o","n">>,
        <<"1","2","/","2","5">> >>,
     << <<"c","v","v">>,
        <<"1","2","3">> >>,
     << <<"d","a","t","e">>,
        <<"2","0","2","4","-","0","1","-","0","1">> >>,
     << <<"d","a","t","e"," ","i","n","t","e","r","v","a","l">>,
        <<"2","0","2","4","-","0","1","-","0","1"," ","t","o"," ","2","0","2","4","-","1","2","-","3","1">> >>,
     << <<"d","i","s","c","h","a","r","g","e"," ","d","a","t","e">>,
        <<"2","0","2","4","-","0","3","-","1","5">> >>,
     << <<"d","o","b">>,
        <<"0","1","/","0","1","/","1","9","9","0">> >>,
     << <<"d","u","r","a","t","i","o","n">>,
        <<"3","0"," ","d","a","y","s">> >>,
     << <<"e","m","a","i","l"," ","a","d","d","r","e","s","s">>,
        <<"u","s","e","r","@","e","x","a","m","p","l","e",".","c","o","m">> >>,
     << <<"e","s","i","d","n","o">>,
        <<"E","S","I","1","2","3","4","5","6","7","8","9">> >>,
     << <<"f","i","l","e","n","a","m","e">>,
        <<"d","o","c","u","m","e","n","t",".","p","d","f">> >>,
     << <<"g","e","n","d","e","r">>,
        <<"P","e","r","s","o","n">> >>,
     << <<"l","a","n","g","u","a","g","e">>,
        <<"E","n","g","l","i","s","h">> >>,
     << <<"l","o","c","a","t","i","o","n">>,
        <<"C","i","t","y"," ","N","a","m","e">> >>,
     << <<"l","o","c","a","t","i","o","n"," ","a","d","d","r","e","s","s">>,
        <<"1","2","3"," ","M","a","i","n"," ","S","t",","," ","C","i","t","y",","," ","S","t","a","t","e"," ","1","2","3","4","5">> >>,
     << <<"l","o","c","a","t","i","o","n"," ","a","d","d","r","e","s","s"," ","s","t","r","e","e","t">>,
        <<"1","2","3"," ","M","a","i","n"," ","S","t","r","e","e","t">> >>,
     << <<"l","o","c","a","t","i","o","n"," ","c","i","t","y">>,
        <<"A","n","y","t","o","w","n">> >>,
     << <<"l","o","c","a","t","i","o","n"," ","c","o","u","n","t","r","y">>,
        <<"U","n","i","t","e","d"," ","S","t","a","t","e","s">> >>,
     << <<"l","o","c","a","t","i","o","n"," ","s","t","a","t","e">>,
        <<"C","a","l","i","f","o","r","n","i","a">> >>,
     << <<"l","o","c","a","t","i","o","n"," ","z","i","p">>,
        <<"1","2","3","4","5">> >>,
     << <<"m","a","r","i","t","a","l"," ","s","t","a","t","u","s">>,
        <<"S","t","a","t","u","s">> >>,
     << <<"m","e","d","i","c","a","l"," ","p","r","o","c","e","s","s">>,
        <<"M","e","d","i","c","a","l"," ","P","r","o","c","e","d","u","r","e">> >>,
     << <<"m","o","n","e","y">>,
        <<"$","5","0",",","0","0","0">> >>,
     << <<"m","o","n","t","h">>,
        <<"J","a","n","u","a","r","y">> >>,
     << <<"n","a","m","e">>,
        <<"J","o","h","n"," ","D","o","e">> >>,
     << <<"n","a","m","e"," ","f","a","m","i","l","y">>,
        <<"D","o","e">> >>,
     << <<"n","a","m","e"," ","g","i","v","e","n">>,
        <<"J","o","h","n">> >>,
     << <<"n","a","m","e"," ","m","e","d","i","c","a","l"," ","p","r","o","f","e","s","s","i","o","n","a","l">>,
        <<"D","r","."," ","S","m","i","t","h">> >>,
     << <<"n","u","m","b","e","r">>,
        <<"1","2","3","4","5">> >>,
     << <<"n","u","m","e","r","i","c","a","l"," ","p","i","i">>,
        <<"N","U","M","1","2","3","4","5","6">> >>,
     << <<"o","c","c","u","p","a","t","i","o","n">>,
        <<"P","r","o","f","e","s","s","i","o","n","a","l">> >>,
     << <<"o","r","g","a","n","i","z","a","t","i","o","n">>,
        <<"E","x","a","m","p","l","e"," ","C","o","r","p">> >>,
     << <<"o","r","g","a","n","i","z","a","t","i","o","n"," ","m","e","d","i","c","a","l"," ","f","a","c","i","l","i","t","y">>,
        <<"G","e","n","e","r","a","l"," ","H","o","s","p","i","t","a","l">> >>,
     << <<"o","r","i","g","i","n">>,
        <<"C","o","u","n","t","r","y">> >>,
     << <<"p","a","s","s","p","o","r","t"," ","n","u","m","b","e","r">>,
        <<"P","1","2","3","4","5","6","7","8">> >>,
     << <<"p","a","s","s","w","o","r","d">>,
        <<"S","e","c","u","r","e","P","a","s","s","1","2","3">> >>,
     << <<"p","h","o","n","e"," ","n","u","m","b","e","r">>,
        <<"(","5","5","5",")"," ","1","2","3","-","4","5","6","7">> >>,
     << <<"p","h","y","s","i","c","a","l"," ","a","t","t","r","i","b","u","t","e">>,
        <<"D","e","s","c","r","i","p","t","i","o","n">> >>,
     << <<"p","i","n">>,
        <<"1","2","3","4">> >>,
     << <<"p","l","a","n","d","u","r","a","t","i","o","n">>,
        <<"1","2"," ","m","o","n","t","h","s">> >>,
     << <<"p","o","l","i","c","y"," ","n","u","m","b","e","r">>,
        <<"P","O","L","-","1","2","3","4","5","6","7","8">> >>,
     << <<"r","a","t","e">>,
        <<"5","%">> >>,
     << <<"s","s","n">>,
        <<"1","2","3","-","4","5","-","6","7","8","9">> >>,
     << <<"t","e","s","t"," ","r","e","s","u","l","t">>,
        <<"R","e","s","u","l","t">> >>,
     << <<"t","i","m","e">>,
        <<"1","2",":","0","0",":","0","0">> >>,
     << <<"z","i","p">>,
        <<"1","2","3","4","5">> >> >>

\* ---------------------------------------------------------------- state
VARIABLES
  pc,                   \* position of the running operation
  FAKER_AVAILABLE,      \* whether `from faker import Faker` succeeded
  result,               \* what the operation returned; None before it returns
  \* replace_pii_in_text
  text,                 \* argument text
  entities,             \* argument entities
  sorted_entities,      \* local
  modified_text,        \* local
  idx,                  \* position of the for loop (1-based)
  replacement,          \* local, as spliced by the last iteration
  synthesized,          \* value get_replacement returned to the last iteration
  before,               \* modified_text as the last iteration found it
  synth_calls,          \* number of calls of get_replacement so far
  origin,               \* per character of modified_text: its position (1-based) in
                        \* text, or 0 for a character a replacement brought in
  origin_before,        \* origin as the last iteration found it
  \* cmd_detect
  args,                 \* the parsed command line
  pii_types,            \* local: the categories get_pii_types resolved; empty before
  content,              \* local: the texts extract_all_text found
  element,              \* position of the loop over content (1-based)
  detector_calls,       \* number of calls of model.predict_entities so far
  detector_labels,      \* the label list of the last call of predict_entities; empty before
  total_pii_instances,  \* results['summary']['total_pii_instances']
  redacted,             \* 'redacted' of the last element that had entities
  \* get_replacement called on its own
  category,             \* argument pii_type
  returned              \* per call so far: the original_text given, the value returned

commonVars == << pc, FAKER_AVAILABLE, result >>
redactVars == << text, entities, sorted_entities, modified_text, idx, replacement,
                 synthesized, before, synth_calls, origin, origin_before >>
detectVars == << args, pii_types, content, element, detector_calls, detector_labels,
                 total_pii_instances, redacted >>
synthVars  == << category, returned >>
vars == << commonVars, redactVars, detectVars, synthVars >>

None == "None"

\* ---------------------------------------------------------------- synthesizer
IsRegistered(pii_type) == \E i \in DOMAIN PII_TO_FAKER : PII_TO_FAKER[i][1] = pii_type

\* the else-branch constant of the category's lambda
FallbackValue(pii_type) ==
  PII_TO_FAKER[CHOOSE i \in DOMAIN PII_TO_FAKER : PII_TO_FAKER[i][1] = pii_type][2]

S_number == <<"n","u","m","b","e","r">>
S_filename == <<"f","i","l","e","n","a","m","e">>
S_age == <<"a","g","e">>

\* Values the Faker library hands back, by category.  The library is outside the
\* repository; each generator is represented by sample outputs of the shape the
\* lambda builds: str(random_int(1, 999999)) by its shortest and longest value,
\* str(random_int(18, 90)) by its two ends, file_name() by one name; the other
\* categories by one sample, spelled as their constant.
FakerValues(pii_type) ==
  CASE pii_type = S_number   -> { <<"1">>, <<"9","9","9","9","9","9">> }
    [] pii_type = S_age      -> { <<"1","8">>, <<"9","0">> }
    [] pii_type = S_filename -> { <<"w","o","r","d",".","m","p","3">> }
    [] OTHER                 -> { FallbackValue(pii_type) }

\* PII_TO_FAKER[pii_type](): `<faker call> if fake else <constant>`
Generate(pii_type) ==
  IF FAKER_AVAILABLE THEN FakerValues(pii_type) ELSE { FallbackValue(pii_type) }

\* the placeholder without .replace(' ', '_')
Placeholder_SpacesKept(pii_type) == <<"[">> \o StrUpper(pii_type) \o <<"]">>

\* f"[{pii_type.upper().replace(' ', '_')}]"
Placeholder(pii_type) == <<"[">> \o StrReplaceChar(StrUpper(pii_type), " ", "_") \o <<"]">>

\* get_replacement: the set of values one call may return
get_replacement(pii_type, original_text) ==
  IF IsRegistered(pii_type) THEN Generate(pii_type) ELSE { Placeholder(pii_type) }

\* ---------------------------------------------------------------- redactor
\* An entity is a record [label, text, has_offsets, start, end]; has_offsets is
\* `'start' in entity and 'end' in entity`, and start/end are 0 when absent.

\* the sort key: x.get('start', 0)
SortKey(e) == IF e.has_offsets THEN e.start ELSE 0

RemoveAt(s, i) == SubSeq(s, 1, i - 1) \o SubSeq(s, i + 1, Len(s))

\* the entities left in the order of the argument
SortedDescending_Unsorted(s) == s

\* sorted(entities, key=...) without reverse=True: ascending, stable
RECURSIVE SortedDescending_Ascending(_)
SortedDescending_Ascending(s) ==
  IF s = <<>> THEN <<>>
  ELSE LET first == CHOOSE i \in DOMAIN s :
                      /\ \A j \in DOMAIN s : SortKey(s[i]) <= SortKey(s[j])
                      /\ \A j \in 1..(i - 1) : SortKey(s[i]) < SortKey(s[j])
       IN  << s[first] >> \o SortedDescending_Ascending(RemoveAt(s, first))

\* sorted(entities, key=..., reverse=True): descending by key; the sort is
\* stable, so entities with equal keys keep their order in the argument
RECURSIVE SortedDescending(_)
SortedDescending(s) ==
  IF s = <<>> THEN <<>>
  ELSE LET first == CHOOSE i \in DOMAIN s :
                      /\ \A j \in DOMAIN s : SortKey(s[j]) <= SortKey(s[i])
                      /\ \A j \in 1..(i - 1) : SortKey(s[j]) < SortKey(s[i])
       IN  << s[first] >> \o SortedDescending(RemoveAt(s, first))

\* the capitalization step without its elif branch
PreserveCase_NoFirstLetter(entity_text, repl) ==
  IF StrIsUpper(entity_text) THEN StrUpper(repl) ELSE repl

\* "Preserve capitalization": the replacement after the if/elif on entity['text']
PreserveCase(entity_text, repl) ==
  IF StrIsUpper(entity_text) THEN StrUpper(repl)
  ELSE IF entity_text # <<>> /\ CharIsUpper(entity_text[1])
       THEN IF Len(repl) > 1
            THEN << CharUpper(repl[1]) >> \o SubSeq(repl, 2, Len(repl))
            ELSE StrUpper(repl)
       ELSE repl

\* the splice of one iteration: by offsets when the entity has them, else the
\* first occurrence of the matched text
Splice(mtext, entity, repl) ==
  IF entity.has_offsets
  THEN SliceTo(mtext, entity.start) \o repl \o SliceFrom(mtext, entity.end)
  ELSE StrReplaceFirst(mtext, entity.text, repl)

\* the positions of the original text behind the characters the splice keeps,
\* and 0 for each character of the replacement it puts in
SpliceOrigin(orig, mtext, entity, repl) ==
  LET zeros == [i \in 1..Len(repl) |-> 0]
  IN  IF entity.has_offsets
      THEN SliceTo(orig, entity.start) \o zeros \o SliceFrom(orig, entity.end)
      ELSE IF Occurrences(mtext, entity.text) = {} THEN orig
      ELSE LET p == CHOOSE q \in Occurrences(mtext, entity.text) :
                      \A r \in Occurrences(mtext, entity.text) : q <= r
           IN  SubSeq(orig, 1, p) \o zeros \o SubSeq(orig, p + Len(entity.text) + 1, Len(orig))

\* the for loop from position k on, as the set of texts it may end with
RECURSIVE LoopFrom(_, _, _)
LoopFrom(mtext, sorted, k) ==
  IF k > Len(sorted) THEN { mtext }
  ELSE UNION { LoopFrom(Splice(mtext, sorted[k], PreserveCase(sorted[k].text, r)), sorted, k + 1) :
               r \in get_replacement(sorted[k].label, sorted[k].text) }

\* replace_pii_in_text as a whole: the set of texts one call may return
replace_pii_in_text(t, ents) ==
  IF ents = <<>> THEN { t } ELSE LoopFrom(t, SortedDescending(ents), 1)

\* Enter with the early return handing back an empty string
Enter_ReturnsEmpty ==
  /\ pc = "call"
  /\ IF entities = <<>>
     THEN /\ result' = <<>>
          /\ pc' = "done"
          /\ UNCHANGED << sorted_entities, modified_text, idx, origin >>
     ELSE /\ sorted_entities' = SortedDescending(entities)
          /\ modified_text' = text
          /\ origin' = [i \in 1..Len(text) |-> i]
          /\ idx' = 1
          /\ pc' = "loop"
          /\ UNCHANGED result
  /\ UNCHANGED << FAKER_AVAILABLE, text, entities, replacement, synthesized,
                  before, synth_calls, origin_before, detectVars, synthVars >>

\* replace_pii_in_text, `if not entities: return text` and the two assignments
\* before the loop
Enter ==
  /\ pc = "call"
  /\ IF entities = <<>>
     THEN /\ result' = text
          /\ pc' = "done"
          /\ UNCHANGED << sorted_entities, modified_text, idx, origin >>
     ELSE /\ sorted_entities' = SortedDescending(entities)
          /\ modified_text' = text
          /\ origin' = [i \in 1..Len(text) |-> i]
          /\ idx' = 1
          /\ pc' = "loop"
          /\ UNCHANGED result
  /\ UNCHANGED << FAKER_AVAILABLE, text, entities, replacement, synthesized,
                  before, synth_calls, origin_before, detectVars, synthVars >>

\* one iteration of `for entity in sorted_entities`
Iterate ==
  /\ pc = "loop"
  /\ idx <= Len(sorted_entities)
  /\ LET entity == sorted_entities[idx]
     IN  \E r \in get_replacement(entity.label, entity.text) :
           /\ synthesized' = r
           /\ replacement' = PreserveCase(entity.text, r)
           /\ modified_text' = Splice(modified_text, entity, replacement')
           /\ origin' = SpliceOrigin(origin, modified_text, entity, replacement')
  /\ before' = modified_text
  /\ origin_before' = origin
  /\ synth_calls' = synth_calls + 1
  /\ idx' = idx + 1
  /\ UNCHANGED << pc, FAKER_AVAILABLE, text, entities, sorted_entities, result,
                  detectVars, synthVars >>

\* `return modified_text` once the loop is exhausted
Return ==
  /\ pc = "loop"
  /\ idx > Len(sorted_entities)
  /\ result' = modified_text
  /\ pc' = "done"
  /\ UNCHANGED << FAKER_AVAILABLE, redactVars, detectVars, synthVars >>

\* ---------------------------------------------------------------- selector
\* normalize_pii_types with replace('_', ' ', 1): the first underscore only
normalize_pii_types_FirstOnly(types) ==
  [i \in DOMAIN types |-> StrReplaceFirst(types[i], <<"_">>, <<" ">>)]

\* normalize_pii_types: every underscore of every token becomes a space
normalize_pii_types(types) == [i \in DOMAIN types |-> StrReplaceChar(types[i], "_", " ")]

\* get_pii_types.  args.pii_types is None without --pii-types; the code only
\* tests its truth value, which None and the empty list share, so None is
\* written as the empty list
get_pii_types(a) ==
  IF a.pii_types # <<>> THEN normalize_pii_types(a.pii_types)
  ELSE IF a.pii THEN PII_GROUP
  ELSE IF a.phi THEN PHI_GROUP
  ELSE IF a.pci THEN PCI_GROUP
  ELSE ALL_PII_TYPES

\* ---------------------------------------------------------------- detector
Span(label, t, start, end) ==
  [ label |-> label, text |-> Slice(t, start, end), has_offsets |-> TRUE,
    start |-> start, end |-> end ]

\* model.predict_entities(text, labels): the detector is outside the repository.
\* It reports nothing, or one span over the whole text labelled with the first or
\* the last of the labels it was asked for.
PredictEntities(t, labels) ==
  { <<>> } \cup { << Span(labels[i], t, 0, Len(t)) >> : i \in { 1, Len(labels) } }

\* ---------------------------------------------------------------- cmd_detect
\* cmd_detect up to the loop: the input check, get_pii_types, the model and the
\* document loaded, the results record initialised
DetectStart ==
  /\ pc = "main"
  /\ IF ~args.input_exists
     THEN /\ result' = 1
          /\ pc' = "exit"
          /\ UNCHANGED << pii_types, element >>
     ELSE /\ pii_types' = get_pii_types(args)
          /\ element' = 1
          /\ pc' = "process"
          /\ UNCHANGED result
  /\ UNCHANGED << FAKER_AVAILABLE, redactVars, args, content, detector_calls,
                  detector_labels, total_pii_instances, redacted, synthVars >>

\* one iteration of `for element in content`
DetectElement ==
  /\ pc = "process"
  /\ element <= Len(content)
  /\ detector_calls' = detector_calls + 1
  /\ detector_labels' = pii_types
  /\ \E found \in PredictEntities(content[element], pii_types) :
       /\ IF found # <<>> /\ args.format = "redacted"
          THEN redacted' \in replace_pii_in_text(content[element], found)
          ELSE UNCHANGED redacted
       /\ total_pii_instances' = total_pii_instances + Len(found)
  /\ element' = element + 1
  /\ UNCHANGED << commonVars, redactVars, args, pii_types, content, synthVars >>

\* the results printed, `return 0`
DetectFinish ==
  /\ pc = "process"
  /\ element > Len(content)
  /\ result' = 0
  /\ pc' = "exit"
  /\ UNCHANGED << FAKER_AVAILABLE, redactVars, detectVars, synthVars >>

\* ---------------------------------------------------------------- get_replacement
\* original_text arguments tried
OriginalTexts == { <<>>, <<"B">>, <<"a", "-">> }

\* one call of get_replacement(pii_type, original_text)
CallGetReplacement ==
  /\ pc = "synth"
  /\ Len(returned) < MaxCalls
  /\ \E original_text \in OriginalTexts :
       \E v \in get_replacement(category, original_text) :
         returned' = Append(returned, [original_text |-> original_text, value |-> v])
  /\ UNCHANGED << commonVars, redactVars, detectVars, category >>

\* ---------------------------------------------------------------- inputs
\* characters of the texts: a lower-case letter, a capital, an uncased character
TextChars == { "a", "B", "-" }
Texts == SeqsUpTo(TextChars, MaxLen)

S_xyz == <<"x","y","z">>
\* labels the detector reports: two registered categories and one that is not
\* (an explicit token reaches the detector as the user typed it)
DetectedLabels == { S_number, S_filename, S_xyz }

\* spans the detector reports with offsets inside the text
WellFormedSpans(t) ==
  { Span(l, t, o[1], o[2]) :
      l \in DetectedLabels,
      o \in { p \in (0..Len(t)) \X (0..Len(t)) : p[1] <= p[2] } }

\* spans with any offsets from one before the text to one past its end
UntrustedSpans(t) ==
  { Span(l, t, o[1], o[2]) :
      l \in DetectedLabels, o \in (-1..(Len(t) + 1)) \X (-1..(Len(t) + 1)) }

S_date == <<"d","a","t","e">>
\* labels of the spans reported without offsets: date, whose values hold "-"
\* as the texts do, and number
NoOffsetLabels == { S_date, S_number }

\* matched texts of the spans reported without offsets: empty, one character,
\* two characters
NoOffsetTexts == { <<>>, <<"a">>, <<"B">>, <<"-">>, <<"a", "-">> }

\* spans the detector reports without 'start' and 'end'
NoOffsetSpans ==
  { [ label |-> l, text |-> m, has_offsets |-> FALSE, start |-> 0, end |-> 0 ] :
      l \in NoOffsetLabels, m \in NoOffsetTexts }

\* tokens after --pii-types
S_ssn == <<"s","s","n">>
S_phone_number == <<"p","h","o","n","e","_","n","u","m","b","e","r">>
S_phone_number_spaced == <<"p","h","o","n","e"," ","n","u","m","b","e","r">>
S_location_address_street ==
  <<"l","o","c","a","t","i","o","n","_","a","d","d","r","e","s","s","_","s","t","r","e","e","t">>
S_location_address_street_mixed ==
  <<"l","o","c","a","t","i","o","n"," ","a","d","d","r","e","s","s","_","s","t","r","e","e","t">>
S_x_y == <<"x","_","y">>
Tokens == { S_ssn, S_phone_number, S_phone_number_spaced, S_location_address_street,
            S_location_address_street_mixed, S_xyz, S_x_y }

\* --pii-types takes one token or more (nargs='+')
ExplicitLists == SeqsUpTo(Tokens, MaxTokens) \ { <<>> }

\* the selections the parser lets through: --pii-types, --pii, --phi and --pci
\* are mutually exclusive
Selections ==
  { [ pii_types |-> l, pii |-> FALSE, phi |-> FALSE, pci |-> FALSE ] : l \in ExplicitLists }
  \cup { [ pii_types |-> <<>>, pii |-> g = "pii", phi |-> g = "phi", pci |-> g = "pci" ] :
         g \in { "pii", "phi", "pci", "all" } }

Formats == { "summary", "json", "redacted" }

\* texts of paragraphs and table cells (extract_all_text keeps the non-blank ones)
ElementTexts == { <<"B">>, <<"a", "-">> }

\* categories handed to get_replacement on its own
CategoryChars == { "a", "Z", " ", "_", "1" }
Categories ==
  SeqsUpTo(CategoryChars, MaxCatLen) \cup { S_number, S_age, S_filename, S_ssn, S_xyz }

\* ---------------------------------------------------------------- specifications
RedactIdle ==
  /\ text = <<>>
  /\ entities = <<>>
  /\ sorted_entities = <<>>
  /\ modified_text = <<>>
  /\ idx = 0
  /\ replacement = None
  /\ synthesized = None
  /\ before = None
  /\ synth_calls = 0
  /\ origin = <<>>
  /\ origin_before = <<>>

DetectIdle ==
  /\ args = None
  /\ pii_types = <<>>
  /\ content = <<>>
  /\ element = 0
  /\ detector_calls = 0
  /\ detector_labels = <<>>
  /\ total_pii_instances = 0
  /\ redacted = None

SynthIdle ==
  /\ category = None
  /\ returned = <<>>

\* a call of replace_pii_in_text on a text, before its first statement
CallStart ==
  /\ pc = "call"
  /\ FAKER_AVAILABLE \in BOOLEAN
  /\ result = None
  /\ text \in Texts
  /\ sorted_entities = <<>>
  /\ modified_text = <<>>
  /\ idx = 0
  /\ replacement = None
  /\ synthesized = None
  /\ before = None
  /\ synth_calls = 0
  /\ origin = <<>>
  /\ origin_before = <<>>
  /\ DetectIdle
  /\ SynthIdle

\* the spans carry offsets inside the text
Init ==
  /\ CallStart
  /\ entities \in SeqsUpTo(WellFormedSpans(text), MaxSpans)

\* the spans carry whatever offsets the detector reported
InitUntrusted ==
  /\ CallStart
  /\ entities \in SeqsUpTo(UntrustedSpans(text), MaxSpans)

\* the spans carry no offsets
InitNoOffsets ==
  /\ CallStart
  /\ entities \in SeqsUpTo(NoOffsetSpans, MaxSpans)

NextRedact == Enter \/ Iterate \/ Return

Next == NextRedact

Spec == Init /\ [][Next]_vars

SpecUntrusted == InitUntrusted /\ [][NextRedact]_vars

SpecNoOffsets == InitNoOffsets /\ [][NextRedact]_vars

\* the detect command on a parsed command line and a document
InitDetect ==
  /\ pc = "main"
  /\ FAKER_AVAILABLE \in BOOLEAN
  /\ result = None
  /\ RedactIdle
  /\ \E sel \in Selections, fmt \in Formats, exists \in BOOLEAN :
       args = [ input_exists |-> exists, pii_types |-> sel.pii_types, pii |-> sel.pii,
                phi |-> sel.phi, pci |-> sel.pci, format |-> fmt ]
  /\ pii_types = <<>>
  /\ content \in SeqsUpTo(ElementTexts, MaxElements)
  /\ element = 0
  /\ detector_calls = 0
  /\ detector_labels = <<>>
  /\ total_pii_instances = 0
  /\ redacted = None
  /\ SynthIdle

NextDetect == DetectStart \/ DetectElement \/ DetectFinish

SpecDetect == InitDetect /\ [][NextDetect]_vars

\* calls of get_replacement on one category
InitSynth ==
  /\ pc = "synth"
  /\ FAKER_AVAILABLE \in BOOLEAN
  /\ result = None
  /\ RedactIdle
  /\ DetectIdle
  /\ category \in Categories
  /\ returned = <<>>

NextSynth == CallGetReplacement

SpecSynth == InitSynth /\ [][NextSynth]_vars

\* ---------------------------------------------------------------- span properties
\* offsets inside the text, in order
WellFormed(e) == e.has_offsets /\ 0 <= e.start /\ e.start <= e.end /\ e.end <= Len(text)

\* the offsets (0-based) a span covers: [start, end)
Covered(e) == { p \in 0..(Len(text) - 1) : e.start <= p /\ p < e.end }

\* no offset is covered by two spans of the argument
NonOverlapping ==
  \A i, j \in DOMAIN entities : i # j => Covered(entities[i]) \cap Covered(entities[j]) = {}

\* no zero-length span sits at the start of, or inside, another span
NoEmptySpanInside ==
  \A i, j \in DOMAIN entities :
    (i # j /\ entities[i].start = entities[i].end)
      => ~(entities[j].start <= entities[i].start /\ entities[i].start < entities[j].end)

\* the synthesizer can return one value only for each category of the call
FixedPerCategory ==
  \A i \in DOMAIN entities :
    Cardinality(get_replacement(entities[i].label, entities[i].text)) = 1

\* every reordering of the argument list
Reorderings(ents) ==
  { [i \in DOMAIN ents |-> ents[f[i]]] : f \in Permutations(DOMAIN ents) }

\* the entity the last iteration handled
LastEntity == sorted_entities[idx - 1]
Iterated == pc \in {"loop", "done"} /\ idx > 1

\* characters of the text no span covers, in order
RECURSIVE OutsideFrom(_)
OutsideFrom(p) ==
  IF p > Len(text) THEN <<>>
  ELSE (IF \E i \in DOMAIN entities : (p - 1) \in Covered(entities[i])
        THEN <<>> ELSE << text[p] >>) \o OutsideFrom(p + 1)

\* a occurs in b as a subsequence: same characters, same order
RECURSIVE IsSubsequence(_, _)
IsSubsequence(a, b) ==
  IF a = <<>> THEN TRUE
  ELSE IF b = <<>> THEN FALSE
  ELSE IF a[1] = b[1] THEN IsSubsequence(Tail(a), Tail(b))
  ELSE IsSubsequence(a, Tail(b))

\* C1: when every span has offsets inside the text (overlapping spans included),
\* the characters of the text outside all spans appear, unchanged and in order,
\* in the returned text
C1_OutsideCharactersKept ==
  (pc = "done" /\ \A i \in DOMAIN entities : WellFormed(entities[i]))
    => IsSubsequence(OutsideFrom(1), result)

\* C2 as stated: with one possible value per category, every reordering of the
\* span list returns the text this call returned
C2_AnyOrderSameResult ==
  (pc = "done" /\ FixedPerCategory)
    => \A perm \in Reorderings(entities) : replace_pii_in_text(text, perm) = { result }

\* spans of the argument that start at the same offset are the same span
SameStartSameSpan ==
  \A i, j \in DOMAIN entities :
    entities[i].start = entities[j].start => entities[i] = entities[j]

\* C2 amended: with one possible value per category, and no two different spans
\* starting at the same offset, every reordering of the span list returns the
\* text this call returned
C2_DistinctStartsAnyOrderSameResult ==
  (pc = "done" /\ FixedPerCategory /\ SameStartSameSpan)
    => \A perm \in Reorderings(entities) : replace_pii_in_text(text, perm) = { result }

\* two spans given left to right, both replaced, the text changed
C2_Witness ==
  /\ pc = "done"
  /\ FixedPerCategory
  /\ Len(entities) = 2
  /\ entities[1].start < entities[2].start
  /\ entities[1].end <= entities[2].start
  /\ entities[1].start < entities[1].end
  /\ entities[2].start < entities[2].end
  /\ entities[1].label # entities[2].label
  /\ sorted_entities # entities
  /\ result # text

\* the matched text has a capital and no lower-case letter
C3_EntirelyUpper(m) ==
  /\ \E i \in DOMAIN m : m[i] \in Range(UpperLetters)
  /\ \A i \in DOMAIN m : m[i] \notin Range(LowerLetters)

\* C3: the value spliced for a span is the synthesized value fully upper-cased
\* when the matched text is entirely upper-case; with only its first character
\* upper-cased when just the first character of the matched text is a capital
\* (fully upper-cased when it has at most one character); and the synthesized
\* value itself otherwise
C3_CaseShape ==
  Iterated =>
    LET m == LastEntity.text
        s == synthesized
        r == replacement
    IN  /\ Len(r) = Len(s)
        /\ IF C3_EntirelyUpper(m)
           THEN \A i \in DOMAIN s : r[i] = CharUpper(s[i])
           ELSE IF m # <<>> /\ m[1] \in Range(UpperLetters)
           THEN IF Len(s) <= 1
                THEN \A i \in DOMAIN s : r[i] = CharUpper(s[i])
                ELSE r[1] = CharUpper(s[1]) /\ \A i \in 2..Len(s) : r[i] = s[i]
           ELSE r = s
        /\ modified_text =
             SubSeq(before, 1, LastEntity.start) \o r \o SubSeq(before, LastEntity.end + 1, Len(before))

\* a match "Ba": a capital first, not all capitals, and a lower-case synthesized
\* value of several characters spliced with its first character capitalised
C3_Witness ==
  /\ Iterated
  /\ LastEntity.text = <<"B", "a">>
  /\ Len(synthesized) > 1
  /\ CharIsLower(synthesized[1])
  /\ replacement # synthesized
  /\ replacement # StrUpper(synthesized)

\* C9: a call with an empty span list returns the text itself and never calls
\* get_replacement
C9_EmptySpansIdentity ==
  (pc = "done" /\ entities = <<>>) => (result = text /\ synth_calls = 0)

C9_Witness == pc = "done" /\ entities = <<>> /\ Len(text) = MaxLen /\ result = text

\* C10 as stated: for well-formed, pairwise non-overlapping spans (zero-length
\* spans allowed), each iteration finds the working text's prefix [0, end) equal
\* to the original's and removes exactly the matched text
C10_PrefixIntact ==
  (Iterated /\ NonOverlapping)
    => /\ SubSeq(before, 1, LastEntity.end) = SubSeq(text, 1, LastEntity.end)
       /\ Slice(before, LastEntity.start, LastEntity.end) = LastEntity.text

\* C10 amended: the same, for span lists in which no zero-length span sits at
\* the start of, or inside, another span
C10_PrefixIntactNoEmptyInside ==
  (Iterated /\ NonOverlapping /\ NoEmptySpanInside)
    => /\ SubSeq(before, 1, LastEntity.end) = SubSeq(text, 1, LastEntity.end)
       /\ Slice(before, LastEntity.start, LastEntity.end) = LastEntity.text

\* the second of two disjoint non-empty spans is spliced after the first splice
\* changed the length of the text
C10_Witness ==
  /\ Iterated
  /\ idx = 3
  /\ NonOverlapping
  /\ NoEmptySpanInside
  /\ LastEntity.start < LastEntity.end
  /\ sorted_entities[1].start < sorted_entities[1].end
  /\ Len(before) # Len(text)
  /\ modified_text # before

\* ---------------------------------------------------------------- untrusted offsets
\* offsets out of order or outside the text
Malformed(e) == e.start > e.end \/ e.start < 0 \/ e.end > Len(text)

\* C4: a call given a span with malformed offsets ends in an error and never
\* returns a text (the model has no position but "done" for a call that ended)
C4_MalformedSpansRejected ==
  (\E i \in DOMAIN entities : Malformed(entities[i])) => pc # "done"

\* ---------------------------------------------------------------- selection properties
\* get_pii_types has run
Resolved == pc \in {"process", "exit"} /\ args.input_exists

\* an explicit token that, normalized, is no category of the taxonomy
UnknownToken(tok) == StrReplaceChar(tok, "_", " ") \notin Range(ALL_PII_TYPES)

\* C5: a run whose explicit list has an unknown token never calls the detector
\* and does not end with the success code
C5_UnknownTokenStopsRun ==
  (\E i \in DOMAIN args.pii_types : UnknownToken(args.pii_types[i]))
    => /\ detector_calls = 0
       /\ pc = "exit" => result # 0

\* the two lists are equal but for "_" against " " inside tokens
SameButSeparators(a, b) ==
  /\ Len(a) = Len(b)
  /\ \A i \in DOMAIN a :
       /\ Len(a[i]) = Len(b[i])
       /\ \A j \in DOMAIN a[i] :
            a[i][j] = b[i][j] \/ ({ a[i][j], b[i][j] } \subseteq { "_", " " })

\* C6: for an explicit list the resolved categories are the tokens, in order,
\* with every underscore a space and nothing else changed; explicit lists that
\* differ only in underscores against spaces resolve to the same; resolving the
\* resolved list again changes nothing
C6_ExplicitListNormalized ==
  (Resolved /\ args.pii_types # <<>>)
    => /\ Len(pii_types) = Len(args.pii_types)
       /\ \A i \in DOMAIN args.pii_types :
            /\ Len(pii_types[i]) = Len(args.pii_types[i])
            /\ \A j \in DOMAIN args.pii_types[i] :
                 pii_types[i][j] = IF args.pii_types[i][j] = "_" THEN " "
                                   ELSE args.pii_types[i][j]
       /\ \A other \in ExplicitLists :
            SameButSeparators(other, args.pii_types)
              => get_pii_types([args EXCEPT !.pii_types = other]) = pii_types
       /\ get_pii_types([args EXCEPT !.pii_types = pii_types]) = pii_types

\* phone_number and location_address_street resolved and handed to the detector
C6_Witness ==
  /\ Resolved
  /\ args.pii_types = << S_phone_number, S_location_address_street >>
  /\ pii_types # args.pii_types
  /\ detector_calls > 0
  /\ detector_labels = pii_types

\* the command line with no selection at all
NoSelection(a) ==
  [a EXCEPT !.pii_types = <<>>, !.pii = FALSE, !.phi = FALSE, !.pci = FALSE]

\* C8: every category of the three groups is in ALL_PII_TYPES, so the categories
\* resolved for a group are among those resolved when nothing is selected
C8_GroupsWithinAll ==
  /\ \A g \in { PII_GROUP, PHI_GROUP, PCI_GROUP } : Range(g) \subseteq Range(ALL_PII_TYPES)
  /\ (Resolved /\ (args.pii \/ args.phi \/ args.pci))
       => Range(pii_types) \subseteq Range(get_pii_types(NoSelection(args)))

\* the payment group resolved and handed to the detector
C8_Witness ==
  /\ Resolved
  /\ args.pci
  /\ pii_types = PCI_GROUP
  /\ detector_calls > 0
  /\ detector_labels = PCI_GROUP

\* ---------------------------------------------------------------- synthesizer properties
RegisteredCategories == { PII_TO_FAKER[i][1] : i \in DOMAIN PII_TO_FAKER }

\* C7: for a category with no generator every call returns "[", the category
\* with letters capitalised and spaces as underscores, "]", whatever the
\* original text given; and no call, for any category, returns an empty value
C7_PlaceholderForUnregistered ==
  \A k \in DOMAIN returned :
    LET v == returned[k].value
    IN  /\ v # <<>>
        /\ category \notin RegisteredCategories
             => /\ Len(v) = Len(category) + 2
                /\ v[1] = "["
                /\ v[Len(v)] = "]"
                /\ \A i \in DOMAIN category :
                     v[i + 1] = IF category[i] = " " THEN "_" ELSE CharUpper(category[i])
                /\ \A l \in DOMAIN returned : returned[l].value = v

\* "a Z" asked twice with different original texts: "[A_Z]" both times
C7_Witness ==
  /\ category = <<"a", " ", "Z">>
  /\ Len(returned) = 2
  /\ returned[1].original_text # returned[2].original_text
  /\ returned[1].value = <<"[", "A", "_", "Z", "]">>
  /\ returned[2].value = returned[1].value

\* ---------------------------------------------------------------- spans without offsets
\* the last iteration handled a span that carries no offsets
IteratedNoOffsets == Iterated /\ ~LastEntity.has_offsets

\* m occurs in s at offset p (0-based)
OccursAt(s, m, p) == p >= 0 /\ p + Len(m) <= Len(s) /\ SubSeq(s, p + 1, p + Len(m)) = m

\* the iteration replaced the occurrence of the matched text at offset p of the
\* working text and nothing else
ReplacedAt(p) ==
  modified_text =
    SubSeq(before, 1, p) \o replacement
      \o SubSeq(before, p + Len(LastEntity.text) + 1, Len(before))

\* C11 as stated: a span without offsets replaces the leftmost occurrence of its
\* matched text in the original text, and nothing else; the characters it
\* replaces are characters of the original text, never of an earlier
\* replacement; when the matched text does not occur in the original text the
\* working text stays as it was
C11_LeftmostInOriginal ==
  IteratedNoOffsets =>
    LET m == LastEntity.text
    IN  IF \E q \in 0..Len(text) : OccursAt(text, m, q)
        THEN \E p \in 0..Len(before) :
               /\ OccursAt(before, m, p)
               /\ ReplacedAt(p)
               /\ \A j \in 1..Len(m) :
                    /\ origin_before[p + j] # 0
                    /\ OccursAt(text, m, origin_before[p + j] - j)
                    /\ \A q \in 0..(origin_before[p + j] - j - 1) : ~OccursAt(text, m, q)
        ELSE modified_text = before

\* C11 amended: a span without offsets replaces the leftmost occurrence of its
\* matched text in the working text as the earlier iterations left it (the
\* original text for the first iteration), and nothing else; when the matched
\* text does not occur in the working text, the working text stays as it was
C11_LeftmostInWorkingText ==
  IteratedNoOffsets =>
    LET m == LastEntity.text
    IN  /\ idx = 2 => before = text
        /\ IF \E q \in 0..Len(before) : OccursAt(before, m, q)
           THEN \E p \in 0..Len(before) :
                  /\ OccursAt(before, m, p)
                  /\ \A q \in 0..(p - 1) : ~OccursAt(before, m, q)
                  /\ ReplacedAt(p)
           ELSE modified_text = before

\* on "a-" the first span replaced "a" by a date; the second span's text "-"
\* then occurs first inside that date, and that occurrence is the one replaced
C11_Witness ==
  /\ IteratedNoOffsets
  /\ idx = 3
  /\ LastEntity.text = <<"-">>
  /\ sorted_entities[1].text = <<"a">>
  /\ text = <<"a", "-">>
  /\ Cardinality({ q \in 0..Len(before) : OccursAt(before, LastEntity.text, q) }) > 1
  /\ \E p \in 0..Len(before) :
       /\ OccursAt(before, LastEntity.text, p)
       /\ ReplacedAt(p)
       /\ origin_before[p + 1] = 0
  /\ modified_text # before

====
